---------------------------- MODULE Spec2Model ----------------------------
(***************************************************************************)
(* Carbon profiling worker (src/profiling-worker/carbon_profiler.py), the  *)
(* device_metrics table it drains (src/profiling-engine/ingestion_api.py), *)
(* and the grid-intensity forecast model with its scheduling               *)
(* recommendation (src/ml-predictor/grid_predictor.py, predictor_api.py,   *)
(* the ML endpoints of ingestion_api.py, the train_model.py scripts).      *)
(*                                                                         *)
(* Conventions.                                                            *)
(*  - A nullable column / Optional value is a sequence: <<>> is None/NULL, *)
(*    <<v>> is the value v.                                                *)
(*  - Latitude and longitude are integers in hundredths of a degree;       *)
(*    round(x, 1) yields tenths of a degree.                               *)
(*  - time.time() is the integer variable clock, in seconds.               *)
(*  - A forecast timestamp is the IST wall clock in minutes since a        *)
(*    midnight.                                                            *)
(*  - FLOAT quantities that are computed by division are exact rationals   *)
(*    [n |-> numerator, d |-> denominator] in lowest terms.                *)
(***************************************************************************)
EXTENDS Integers, Sequences, FiniteSets, TLC

VARIABLES
    metrics,      \* device_metrics rows; the index is the SERIAL id
    footprints,   \* committed carbon_footprints rows, in insertion order
    pc,           \* per worker: position in process_unprocessed_metrics
    batch,        \* per worker: ids fetched by the SELECT (local `unprocessed`)
    txn,          \* per worker: rows INSERTed but not yet committed
    cache,        \* per worker process: grid_intensity_cache
    clock,        \* time.time()
    token,        \* ELECTRICITY_MAPS_TOKEN is non-empty
    cur,          \* per worker: summary of the latest finished call
    prev,         \* per worker: summary of the call before that one
    lastCall,     \* the latest grid-intensity resolution (inputs and result)
    fetchedAt,    \* per cache key: time of the latest successful live fetch
    fetchedAtCoord, \* per exact (lat, lon): time of its latest successful live fetch
    ticks,        \* number of clock advances so far
    ingests,      \* number of rows ingested so far
    embodiedCall, \* the latest call of calculate_embodied_carbon_per_measurement
    mainPc,       \* position of the worker process in main()
    storeUp,      \* the PostgreSQL server accepts connections
    outages,      \* number of times the store has gone down so far
    advice,       \* the latest recommendation call (inputs and result)
    forecast,     \* the latest forecast or greenest-hours call
    blob,         \* per model file: what the path holds
    trainer,      \* per model file: the training that is writing it
    mem,          \* per process: the model held in memory
    api,          \* the predictor API process: "stopped", "up" or "crashed"
    trainings,    \* number of trainings started so far
    mlCall        \* the latest prediction call (what it found and returned)

vars == <<metrics, footprints, pc, batch, txn, cache, clock, token, cur, prev,
          lastCall, fetchedAt, fetchedAtCoord, ticks, ingests, embodiedCall,
          mainPc, storeUp, outages, advice, forecast, blob, trainer, mem,
          api, trainings, mlCall>>

storeVars == <<metrics, footprints, ingests>>
workerVars == <<pc, batch, txn, cur, prev>>
resolverVars == <<cache, lastCall, fetchedAt, fetchedAtCoord>>
\* What the worker's poll cycle and the resolver leave alone.
mainVars == <<mainPc, storeUp, outages>>
modelVars == <<blob, trainer, mem, api, trainings, mlCall>>
advisorVars == <<advice, forecast>>
otherVars == <<embodiedCall, mainVars, advisorVars, modelVars>>

----------------------------------------------------------------------------
(* Bounds of the model *)

MaxIngest == 2
MaxTicks == 2
MaxResolverTicks == 2
MaxBacklogIngest == 1
MaxMultiIngest == 1
MaxMainIngest == 1
MaxOutages == 1
MaxTrainings == 2
MaxDeviceIngest == 2

(* Program constants *)

CACHE_TTL_SECONDS == 300
BatchLimit == 100

----------------------------------------------------------------------------
(* Optional values *)

None == <<>>
Some(v) == <<v>>
Val(o) == o[1]

(* Exact rationals *)

Abs(x) == IF x < 0 THEN -x ELSE x

RECURSIVE Gcd(_, _)
Gcd(a, b) == IF b = 0 THEN a ELSE Gcd(b, a % b)

Rat(n, d) ==
    LET g == Gcd(Abs(n), d)
    IN  IF n = 0 THEN [n |-> 0, d |-> 1] ELSE [n |-> n \div g, d |-> d \div g]

RatTimesInt(r, k) == Rat(r.n * k, r.d)

FromInt(k) == [n |-> k, d |-> 1]

Lcm(a, b) == (a \div Gcd(a, b)) * b

\* a + b dropping b: the sum with its second term lost.
RatAddDropsSecond(a, b) == a

RatAdd(a, b) ==
    LET l == Lcm(a.d, b.d)
    IN  Rat(a.n * (l \div a.d) + b.n * (l \div b.d), l)

\* a * b, the common factors removed before the products are formed.
RatMul(a, b) ==
    LET g1 == Gcd(Abs(a.n), b.d)
        g2 == Gcd(Abs(b.n), a.d)
    IN  Rat((a.n \div g1) * (b.n \div g2), (a.d \div g2) * (b.d \div g1))

\* a / b for b > 0
RatDiv(a, b) == RatMul(a, [n |-> b.d, d |-> b.n])

RatSub(a, b) == RatAdd(a, [n |-> -b.n, d |-> b.d])

\* a < k for an integer k
RatLessInt(a, k) == a.n < k * a.d

----------------------------------------------------------------------------
(* Input domains *)

AllWorkers == {1, 2}

\* Seconds by which the clock advances in one step.
TickSteps == {150}

\* Latitude/longitude pairs (hundredths of a degree).  The first two fall in
\* the same cache bucket (12.9, 77.6); the third in another (28.6, 77.2).
CoordA == [lat |-> Some(1291), lon |-> Some(7761)]
CoordA2 == [lat |-> Some(1294), lon |-> Some(7759)]
CoordB == [lat |-> Some(2861), lon |-> Some(7721)]
NoCoord == [lat |-> None, lon |-> None]
OnlyLat == [lat |-> Some(1291), lon |-> None]
OnlyLon == [lat |-> None, lon |-> Some(7761)]

Locations == {CoordA, CoordA2, CoordB, NoCoord, OnlyLat, OnlyLon}

CountryCodes == {None, Some("IN"), Some("US"), Some("EU"), Some("CN"), Some("XX")}

\* (location, country code) arguments of the resolver calls that are explored.
ResolverInputs ==
    { [loc |-> NoCoord, cc |-> c] : c \in CountryCodes }
    \cup { [loc |-> CoordA, cc |-> c] : c \in {None, Some("IN"), Some("XX")} }
    \cup { [loc |-> CoordA2, cc |-> Some("US")],
           [loc |-> CoordB, cc |-> Some("EU")],
           [loc |-> CoordB, cc |-> Some("CN")],
           [loc |-> OnlyLat, cc |-> Some("IN")],
           [loc |-> OnlyLon, cc |-> None] }

\* Rows that the ingestion API is asked to insert.  The timestamp is the
\* client's, so a row ingested later may carry an earlier timestamp.
Reading(ts, power, loc, cc) ==
    [device_type |-> Some("laptop"), timestamp |-> ts, power |-> power,
     lat |-> loc.lat, lon |-> loc.lon, cc |-> cc]

\* The same for a device_type the client chose: data.get('device_type',
\* 'laptop') stores whatever string the body carries, and NULL for a JSON
\* null.
ReadingOf(device_type, ts, power, loc, cc) ==
    [Reading(ts, power, loc, cc) EXCEPT !.device_type = device_type]

IngestInputs ==
    { Reading(1, Some(10), NoCoord, Some("IN")),
      Reading(2, Some(10), NoCoord, Some("IN")),
      Reading(1, None, NoCoord, None),
      Reading(2, Some(-5), NoCoord, Some("US")),
      Reading(1, Some(10), CoordA, Some("XX")) }

\* Rows of several device classes and powers: a known class other than
\* the laptop, a class the tables do not have, no class, 0 W, a negative
\* power, and a located laptop.
DeviceInputs ==
    { ReadingOf(Some("server"), 1, Some(300), NoCoord, Some("CN")),
      ReadingOf(Some("smartwatch"), 2, Some(3), NoCoord, None),
      ReadingOf(None, 1, Some(7), NoCoord, Some("US")),
      Reading(2, Some(0), NoCoord, Some("EU")),
      Reading(2, Some(-5), NoCoord, Some("US")),
      Reading(1, Some(10), CoordA, Some("XX")) }

\* What the GET to the Electricity Maps API can produce.
FetchOutcomes ==
    { [kind |-> k, value |-> 0] :
        k \in {"network_error", "timeout", "status_not_200", "body_not_json",
               "body_not_object", "field_absent", "field_text",
               "field_not_scalar"} }
    \cup { [kind |-> "field_number", value |-> v] : v \in {120, 450} }
    \cup { [kind |-> "field_numeric_text", value |-> 120] }

\* One outcome per way the worker's loop can continue after the GET: a value,
\* None, an exception.
WorkerFetchOutcomes ==
    { [kind |-> "field_number", value |-> 120],
      [kind |-> "status_not_200", value |-> 0],
      [kind |-> "body_not_object", value |-> 0] }

NoOutcome == [kind |-> "unused", value |-> 0]

\* Any one outcome: whether a call reaches the GET does not depend on it.
ProbeOutcome == [kind |-> "timeout", value |-> 0]

----------------------------------------------------------------------------
(* Grid-intensity resolver *)

\* FALLBACK_GRID_INTENSITY.get(country_code, FALLBACK_GRID_INTENSITY['default'])
FallbackUnknownAsIndia(cc) ==
    CASE cc = Some("US") -> 417
      [] cc = Some("EU") -> 295
      [] cc = Some("CN") -> 555
      [] OTHER -> 632

FALLBACK_GRID_INTENSITY(cc) ==
    CASE cc = Some("IN") -> 632
      [] cc = Some("US") -> 417
      [] cc = Some("EU") -> 295
      [] cc = Some("CN") -> 555
      [] cc = Some("default") -> 475
      [] OTHER -> 475

\* round(x, 1) on hundredths of a degree, giving tenths.  The inputs of the
\* model never end in 5, where the result depends on the binary float.
Round1(h) == IF h >= 0 THEN (h + 5) \div 10 ELSE -((5 - h) \div 10)

\* cache_key = f"{round(lat, 1)}_{round(lon, 1)}"
CacheKey(lat, lon) == <<Round1(lat), Round1(lon)>>

\* now - cached_data['timestamp'] < CACHE_TTL_SECONDS
CacheFreshInclusive(ts, now) == now - ts <= CACHE_TTL_SECONDS

CacheFreshAlways(ts, now) == TRUE

CacheFresh(ts, now) == now - ts < CACHE_TTL_SECONDS

\* if not ELECTRICITY_MAPS_TOKEN: return None
FetchAllowedAlways(tok) == TRUE

FetchAllowed(tok) == tok

\* fetch_grid_intensity_by_location: the result for each outcome of the GET.
\*   raised    - an exception leaves the function
\*   ret       - the Optional[float] returned
\*   requested - requests.get was called
fetch_grid_intensity_by_location(tok, oc) ==
    IF ~FetchAllowed(tok)
    THEN [raised |-> FALSE, ret |-> None, requested |-> FALSE]
    ELSE CASE oc.kind \in {"network_error", "timeout"} ->
                \* requests.exceptions.RequestException
                [raised |-> FALSE, ret |-> None, requested |-> TRUE]
           [] oc.kind = "status_not_200" ->
                [raised |-> FALSE, ret |-> None, requested |-> TRUE]
           [] oc.kind = "body_not_json" ->
                \* response.json() raises a ValueError
                [raised |-> FALSE, ret |-> None, requested |-> TRUE]
           [] oc.kind = "body_not_object" ->
                \* data.get: AttributeError, which no except clause names
                [raised |-> TRUE, ret |-> None, requested |-> TRUE]
           [] oc.kind = "field_absent" ->
                [raised |-> FALSE, ret |-> None, requested |-> TRUE]
           [] oc.kind = "field_text" ->
                \* float("high") raises ValueError
                [raised |-> FALSE, ret |-> None, requested |-> TRUE]
           [] oc.kind = "field_not_scalar" ->
                \* float([..]) raises TypeError, which no except clause names
                [raised |-> TRUE, ret |-> None, requested |-> TRUE]
           [] oc.kind \in {"field_number", "field_numeric_text"} ->
                \* float(120) and float("120") both give 120.0
                [raised |-> FALSE, ret |-> Some(oc.value), requested |-> TRUE]

\* The same, but a cache hit stamps the entry with the time of the hit.
get_grid_intensity_refreshing_hit(lat, lon, cc, now, oc, c, tok) ==
    LET cache_key == CacheKey(lat, lon)
        hit == /\ cache_key \in DOMAIN c
               /\ CacheFresh(c[cache_key].timestamp, now)
        f == fetch_grid_intensity_by_location(tok, oc)
    IN  IF hit
        THEN [path |-> "cache", value |-> c[cache_key].value,
              cache |-> [c EXCEPT ![cache_key].timestamp = now],
              requested |-> FALSE]
        ELSE IF f.raised
        THEN [path |-> "raised", value |-> 0, cache |-> c,
              requested |-> f.requested]
        ELSE IF f.ret # None
        THEN [path |-> "live", value |-> Val(f.ret),
              cache |-> [k \in DOMAIN c \cup {cache_key} |->
                           IF k = cache_key
                           THEN [value |-> Val(f.ret), timestamp |-> now]
                           ELSE c[k]],
              requested |-> f.requested]
        ELSE [path |-> "fallback", value |-> FALLBACK_GRID_INTENSITY(cc),
              cache |-> c, requested |-> f.requested]

\* The same, but the fallback is stored in the cache like a fetched value.
get_grid_intensity_caching_fallback(lat, lon, cc, now, oc, c, tok) ==
    LET cache_key == CacheKey(lat, lon)
        hit == /\ cache_key \in DOMAIN c
               /\ CacheFresh(c[cache_key].timestamp, now)
        f == fetch_grid_intensity_by_location(tok, oc)
        store(v) == [k \in DOMAIN c \cup {cache_key} |->
                       IF k = cache_key
                       THEN [value |-> v, timestamp |-> now]
                       ELSE c[k]]
    IN  IF hit
        THEN [path |-> "cache", value |-> c[cache_key].value, cache |-> c,
              requested |-> FALSE]
        ELSE IF f.raised
        THEN [path |-> "raised", value |-> 0, cache |-> c,
              requested |-> f.requested]
        ELSE IF f.ret # None
        THEN [path |-> "live", value |-> Val(f.ret),
              cache |-> store(Val(f.ret)), requested |-> f.requested]
        ELSE [path |-> "fallback", value |-> FALLBACK_GRID_INTENSITY(cc),
              cache |-> store(FALLBACK_GRID_INTENSITY(cc)),
              requested |-> f.requested]

\* get_grid_intensity_with_cache(lat, lon, country_code) called at time `now`
\* with cache c; oc is what the GET produces if it is made.
\*   path - "cache" | "live" | "fallback" | "raised"
get_grid_intensity_with_cache(lat, lon, cc, now, oc, c, tok) ==
    LET cache_key == CacheKey(lat, lon)
        hit == /\ cache_key \in DOMAIN c
               /\ CacheFresh(c[cache_key].timestamp, now)
        f == fetch_grid_intensity_by_location(tok, oc)
    IN  IF hit
        THEN [path |-> "cache", value |-> c[cache_key].value, cache |-> c,
              requested |-> FALSE]
        ELSE IF f.raised
        THEN [path |-> "raised", value |-> 0, cache |-> c,
              requested |-> f.requested]
        ELSE IF f.ret # None
        THEN [path |-> "live", value |-> Val(f.ret),
              cache |-> [k \in DOMAIN c \cup {cache_key} |->
                           IF k = cache_key
                           THEN [value |-> Val(f.ret), timestamp |-> now]
                           ELSE c[k]],
              requested |-> f.requested]
        ELSE [path |-> "fallback", value |-> FALLBACK_GRID_INTENSITY(cc),
              cache |-> c, requested |-> f.requested]

\* The loop body's "Get location-aware grid intensity" for one metric row.
ResolveGridIntensity(lat, lon, cc, now, oc, c, tok) ==
    IF lat # None /\ lon # None
    THEN get_grid_intensity_with_cache(Val(lat), Val(lon), cc, now, oc, c, tok)
    ELSE [path |-> "fallback", value |-> FALLBACK_GRID_INTENSITY(cc),
          cache |-> c, requested |-> FALSE]

----------------------------------------------------------------------------
(* Initial state: the tables exist and are empty, the worker processes have
   just started (empty module-level cache), the token is whatever the
   environment sets. *)

NoCallYet ==
    [located |-> FALSE, loc |-> NoCoord, cc |-> None, now |-> 0,
     oc |-> NoOutcome, path |-> "none", value |-> 0, requested |-> FALSE,
     entryBefore |-> None, keyFetched |-> None, coordFetched |-> None,
     afterFailure |-> FALSE]

NoBatch == [rows |-> <<>>, atSelect |-> 0]

NoSummary ==
    [status |-> "none", count |-> 0, selected |-> 0, atSelect |-> 0,
     stored |-> 0, rows |-> <<>>]

\* The persisted model blobs: models/grid_prophet.pkl of the ml-predictor
\* service and ./models/grid_prophet.pkl of the profiling engine.  A path
\* holds nothing ("absent"), a file whose pickle is not complete
\* ("partial"), or the complete pickle of the model of training number v.
ModelFiles == {"predictor", "engine"}

Absent == [kind |-> "absent", version |-> 0]
Partial == [kind |-> "partial", version |-> 0]
Complete(v) == [kind |-> "complete", version |-> v]

\* The processes that hold a model in memory: a program that uses
\* GridCarbonPredictor directly, predictor_api.py, ingestion_api.py.  In
\* memory a process has None, Some(v) for the fitted model of training v,
\* or Some(0) for a Prophet object that has not been fitted.
ModelProcesses == {"library", "predictor_api", "engine"}

FileOf(process) == IF process = "engine" THEN "engine" ELSE "predictor"

Unfitted == Some(0)

NoTraining == [stage |-> "idle", old |-> Absent, new |-> 0, inApi |-> FALSE]

NoMlCall ==
    [process |-> "none", endpoint |-> "none", memBefore |-> None,
     blobBefore |-> Absent, replacing |-> Absent, read |-> FALSE,
     outcome |-> "none", model |-> 0]

\* Before any recommendation has been asked for.
NoAdvice ==
    [service |-> "none", predictions |-> <<>>, current_hour |-> 0,
     raised |-> FALSE, status |-> "none", current_intensity |-> 0,
     percent_vs_average |-> [n |-> 0, d |-> 1], greenest_hour |-> 0,
     hours_until_greenest |-> 0]

\* Before any forecast has been asked for.
NoForecast ==
    [service |-> "none", kind |-> "none", now |-> 0, top_n |-> 0,
     predictions |-> <<>>, result |-> <<>>]

\* Before calculate_embodied_carbon_per_measurement has been called.
NoEmbodiedCall ==
    [device_type |-> None, interval |-> 0, called |-> FALSE,
     raised |-> FALSE, value |-> [n |-> 0, d |-> 1]]

OtherInit ==
    /\ embodiedCall = NoEmbodiedCall
    /\ mainPc = "starting"
    /\ storeUp = TRUE
    /\ outages = 0
    /\ advice = NoAdvice
    /\ forecast = NoForecast
    /\ blob = [f \in ModelFiles |-> Absent]
    /\ trainer = [f \in ModelFiles |-> NoTraining]
    /\ mem = [p \in ModelProcesses |-> None]
    /\ api = "stopped"
    /\ trainings = 0
    /\ mlCall = NoMlCall

Init ==
    /\ metrics = <<>>
    /\ footprints = <<>>
    /\ pc = [w \in AllWorkers |-> "idle"]
    /\ batch = [w \in AllWorkers |-> NoBatch]
    /\ txn = [w \in AllWorkers |-> <<>>]
    /\ cache = [w \in AllWorkers |-> <<>>]
    /\ clock = 0
    /\ token \in BOOLEAN
    /\ cur = [w \in AllWorkers |-> NoSummary]
    /\ prev = [w \in AllWorkers |-> NoSummary]
    /\ lastCall = NoCallYet
    /\ fetchedAt = <<>>
    /\ fetchedAtCoord = <<>>
    /\ ticks = 0
    /\ ingests = 0
    /\ OtherInit

\* f with f[k] set to v, k added to the domain when it is new (dict store).
Put(f, k, v) == [x \in DOMAIN f \cup {k} |-> IF x = k THEN v ELSE f[x]]

\* dict.get(k) as an Optional
Get(f, k) == IF k \in DOMAIN f THEN Some(f[k]) ELSE None

----------------------------------------------------------------------------
(* The resolver called on its own, at the current time, with any arguments
   a metric row can carry and any outcome of the GET. *)

ResolverCall(w) ==
    \E inp \in ResolverInputs :
        LET loc == inp.loc
            cc == inp.cc
            located == loc.lat # None /\ loc.lon # None
            key == IF located THEN CacheKey(Val(loc.lat), Val(loc.lon)) ELSE <<>>
            reaches == ResolveGridIntensity(loc.lat, loc.lon, cc, clock,
                                            ProbeOutcome, cache[w], token).requested
        IN  \E oc \in (IF reaches THEN FetchOutcomes ELSE {NoOutcome}) :
            LET r == ResolveGridIntensity(loc.lat, loc.lon, cc, clock, oc,
                                          cache[w], token)
            IN  /\ cache' = [cache EXCEPT ![w] = r.cache]
                /\ lastCall' =
                     [located |-> located, loc |-> loc, cc |-> cc, now |-> clock,
                      oc |-> oc, path |-> r.path, value |-> r.value,
                      requested |-> r.requested,
                      entryBefore |-> IF located THEN Get(cache[w], key) ELSE None,
                      keyFetched |-> IF located THEN Get(fetchedAt, key) ELSE None,
                      coordFetched |-> Get(fetchedAtCoord, loc),
                      \* the call before this one was for the same cache
                      \* key and its fetch returned None
                      afterFailure |->
                          /\ located
                          /\ lastCall.located
                          /\ lastCall.path = "fallback"
                          /\ CacheKey(Val(lastCall.loc.lat),
                                      Val(lastCall.loc.lon)) = key]
                /\ fetchedAt' = IF r.path = "live"
                                THEN Put(fetchedAt, key, clock) ELSE fetchedAt
                /\ fetchedAtCoord' = IF r.path = "live"
                                     THEN Put(fetchedAtCoord, loc, clock)
                                     ELSE fetchedAtCoord
                /\ UNCHANGED <<storeVars, workerVars, clock, token, ticks>>
                /\ UNCHANGED otherVars

\* Wall-clock time passes.
ResolverTick ==
    /\ ticks < MaxResolverTicks
    /\ \E d \in TickSteps : clock' = clock + d
    /\ ticks' = ticks + 1
    /\ UNCHANGED <<storeVars, workerVars, resolverVars, token>>
    /\ UNCHANGED otherVars

NextResolver ==
    \/ ResolverCall(1)
    \/ ResolverTick

SpecResolver == Init /\ [][NextResolver]_vars

----------------------------------------------------------------------------
(* Embodied carbon *)

\* dict.get(k, default)
DictGet(dict, k, default) == IF k \in DOMAIN dict THEN dict[k] ELSE default

EMBODIED_CARBON_KG ==
    [smartphone |-> 50, tablet |-> 100, laptop |-> 200, desktop |-> 300,
     workstation |-> 400, server |-> 1500]

\* Years, as exact rationals (2.5 is 5/2).
EXPECTED_LIFETIME_YEARS ==
    [smartphone |-> Rat(5, 2), tablet |-> FromInt(3), laptop |-> FromInt(4),
     desktop |-> FromInt(5), workstation |-> FromInt(5), server |-> FromInt(5)]

\* The amortization with measurement_interval_seconds left out: grams per
\* second of lifetime, whatever the interval.
EmbodiedPerSecond(device_type, measurement_interval_seconds) ==
    LET embodied_total_kg ==
            DictGet(EMBODIED_CARBON_KG, device_type, EMBODIED_CARBON_KG["laptop"])
        lifetime_years ==
            DictGet(EXPECTED_LIFETIME_YEARS, device_type,
                    EXPECTED_LIFETIME_YEARS["laptop"])
    IN  [raised |-> FALSE,
         value |-> RatDiv(FromInt(embodied_total_kg * 1000),
                          RatMul(lifetime_years, FromInt(365 * 24 * 3600)))]

\* The amortization with the server profile as the default profile.
EmbodiedDefaultsToServer(device_type, measurement_interval_seconds) ==
    LET embodied_total_kg ==
            DictGet(EMBODIED_CARBON_KG, device_type, EMBODIED_CARBON_KG["server"])
        lifetime_years ==
            DictGet(EXPECTED_LIFETIME_YEARS, device_type,
                    EXPECTED_LIFETIME_YEARS["server"])
        total_lifetime_seconds == RatMul(lifetime_years, FromInt(365 * 24 * 3600))
    IN  IF measurement_interval_seconds = 0
        THEN [raised |-> TRUE, value |-> FromInt(0)]
        ELSE [raised |-> FALSE,
              value |-> RatDiv(FromInt(embodied_total_kg * 1000),
                               RatDiv(total_lifetime_seconds,
                                      FromInt(measurement_interval_seconds)))]

\* Lines 199-208.  The result is [raised, value]: dividing by an interval
\* of 0 raises ZeroDivisionError.
calculate_embodied_carbon_per_measurement(device_type, measurement_interval_seconds) ==
    LET embodied_total_kg ==
            DictGet(EMBODIED_CARBON_KG, device_type, EMBODIED_CARBON_KG["laptop"])
        lifetime_years ==
            DictGet(EXPECTED_LIFETIME_YEARS, device_type,
                    EXPECTED_LIFETIME_YEARS["laptop"])
        total_lifetime_seconds == RatMul(lifetime_years, FromInt(365 * 24 * 3600))
    IN  IF measurement_interval_seconds = 0
        THEN [raised |-> TRUE, value |-> FromInt(0)]
        ELSE LET total_measurements ==
                     RatDiv(total_lifetime_seconds,
                            FromInt(measurement_interval_seconds))
             IN  [raised |-> FALSE,
                  value |-> RatDiv(FromInt(embodied_total_kg * 1000),
                                   total_measurements)]

\* The device types and intervals the function is called with on its own.
EmbodiedDeviceTypes ==
    DOMAIN EMBODIED_CARBON_KG \cup {"smartwatch", "Laptop", ""}

EmbodiedIntervals == {0, 1, 2, 5, 10, 30, 60, 300}

\* One call of the function.
EmbodiedCall ==
    \E device_type \in EmbodiedDeviceTypes, interval \in EmbodiedIntervals :
        LET r == calculate_embodied_carbon_per_measurement(device_type, interval)
        IN  /\ embodiedCall' =
                  [device_type |-> Some(device_type), interval |-> interval,
                   called |-> TRUE, raised |-> r.raised, value |-> r.value]
            /\ UNCHANGED <<storeVars, workerVars, resolverVars, clock, token,
                           ticks, mainVars, advisorVars, modelVars>>

NextEmbodied == EmbodiedCall

SpecEmbodied == Init /\ [][NextEmbodied]_vars

----------------------------------------------------------------------------
(* Scheduling recommendation: GridCarbonPredictor.get_recommendation
   (src/ml-predictor/grid_predictor.py) and the ingestion API's
   /api/v1/ml/recommendation.  A forecast is the sequence of its points,
   [timestamp, hour, predicted_intensity].  A timestamp is the IST wall
   clock in minutes since a midnight; intensities are positive integers. *)

\* pd.date_range(start=now, end=now + 24h, freq='H'): 25 timestamps.
ForecastPoints == 25

Hours == 24

MinutesPerHour == 60

\* A range that stops one step before its end.
DateRangeOpenEnd(start, end, freq) ==
    [k \in 1..((end - start + freq - 1) \div freq) |-> start + (k - 1) * freq]

\* pd.date_range(start, end, freq): start, start + freq, ... up to and
\* including end when it is on the grid.
date_range(start, end, freq) ==
    [k \in 1..((end - start) \div freq + 1) |-> start + (k - 1) * freq]

\* Timestamp.hour
HourOf(timestamp) == (timestamp \div MinutesPerHour) % Hours

\* round(x, 2) of a value given in thousandths, in hundredths.  The inputs
\* of the model never end in 5, where the result depends on the binary
\* float.
Round2(thousandths) == (thousandths + 5) \div 10

\* GridCarbonPredictor.predict_next_24h (lines 108-132) at wall-clock time
\* now, for a model that predicts yhat[k] for the k-th timestamp.
predict_next_24h(now, yhat) ==
    LET future_dates == date_range(now, now + Hours * MinutesPerHour,
                                   MinutesPerHour)
    IN  [k \in DOMAIN future_dates |->
            [timestamp |-> future_dates[k],
             predicted_intensity |-> yhat[k],
             hour |-> HourOf(future_dates[k])]]

\* ingestion_api.predict_next_24h (lines 141-158): the same grid, each
\* intensity rounded to two decimals (yhat in thousandths, the result in
\* hundredths).
engine_predict_next_24h(now, yhat) ==
    LET future_dates == date_range(now, now + Hours * MinutesPerHour,
                                   MinutesPerHour)
    IN  [k \in DOMAIN future_dates |->
            [timestamp |-> future_dates[k],
             predicted_intensity |-> Round2(yhat[k]),
             hour |-> HourOf(future_dates[k])]]

\* The forecast made at hour-of-day h0, on the hour, with the intensities
\* values.
HourlyForecast(h0, values) == predict_next_24h(h0 * MinutesPerHour, values)

\* Intensities: 600 at every point, except v1 at point i and v2 at point j.
Intensities(i, v1, j, v2) ==
    [k \in 1..ForecastPoints |-> IF k = i THEN v1 ELSE IF k = j THEN v2 ELSE 600]

AdvisorValues == {300, 510, 600, 690, 900}

AdvisorForecasts ==
    { HourlyForecast(h0, Intensities(i, v1, j, v2)) :
        h0 \in {0, 23}, i \in {1, 2}, j \in {3, ForecastPoints},
        v1 \in AdvisorValues, v2 \in AdvisorValues }

RECURSIVE SumTo(_, _)
SumTo(predictions, k) ==
    IF k = 0 THEN 0
    ELSE SumTo(predictions, k - 1) + predictions[k].predicted_intensity

\* predictions['predicted_intensity'].mean(); sum(...) / len(predictions)
Mean(predictions) == Rat(SumTo(predictions, Len(predictions)), Len(predictions))

\* Index of the first point of lowest intensity (idxmin; min(..., key=...)).
IdxMin(predictions) ==
    CHOOSE k \in DOMAIN predictions :
        /\ \A j \in DOMAIN predictions :
              predictions[k].predicted_intensity <= predictions[j].predicted_intensity
        /\ \A j \in 1..(k - 1) :
              predictions[j].predicted_intensity > predictions[k].predicted_intensity

\* Indexes of the points tagged with the hour h.
AtHour(predictions, h) == { k \in DOMAIN predictions : predictions[k].hour = h }

\* The last index of S instead of the first.
LastOf(S) == CHOOSE k \in S : \A j \in S : k >= j

\* .iloc[0]; next(...) of a generator
FirstOf(S) == CHOOSE k \in S : \A j \in S : k <= j

\* ((current_intensity - avg_intensity) / avg_intensity) * 100
PercentVs(current_intensity, reference) ==
    RatMul(RatDiv(RatSub(FromInt(current_intensity), reference), reference),
           FromInt(100))

\* The tiers with the upper boundary of "moderate" included.
StatusModerateAt15(percent_vs_avg) ==
    IF RatLessInt(percent_vs_avg, -15) THEN "excellent"
    ELSE IF RatLessInt(percent_vs_avg, 0) THEN "good"
    ELSE IF percent_vs_avg.n <= 15 * percent_vs_avg.d THEN "moderate"
    ELSE "poor"

\* grid_predictor.py lines 175-190
RecommendationStatus(percent_vs_avg) ==
    IF RatLessInt(percent_vs_avg, -15) THEN "excellent"
    ELSE IF RatLessInt(percent_vs_avg, 0) THEN "good"
    ELSE IF RatLessInt(percent_vs_avg, 15) THEN "moderate"
    ELSE "poor"

\* The tiers with -15 given to "excellent" and 15 given to "moderate".
MlStatusBoundariesSwapped(percent_vs_avg) ==
    IF percent_vs_avg.n <= -15 * percent_vs_avg.d THEN "excellent"
    ELSE IF RatLessInt(percent_vs_avg, 0) THEN "good"
    ELSE IF percent_vs_avg.n <= 15 * percent_vs_avg.d THEN "moderate"
    ELSE "poor"

\* ingestion_api.py lines 572-587
MlRecommendationStatus(percent_vs_avg) ==
    IF RatLessInt(percent_vs_avg, -15) THEN "excellent"
    ELSE IF RatLessInt(percent_vs_avg, 0) THEN "good"
    ELSE IF RatLessInt(percent_vs_avg, 15) THEN "moderate"
    ELSE "poor"

\* What a recommendation call leaves in advice when it raises.
AdviceRaised(service, predictions, current_hour) ==
    [NoAdvice EXCEPT !.service = service, !.predictions = predictions,
                     !.current_hour = current_hour, !.raised = TRUE]

\* grid_predictor.py lines 159-204, from the forecast on.
\* predictions[predictions['hour'] == current_hour].iloc[0] raises
\* IndexError when no point has the hour.
get_recommendation(predictions, current_hour) ==
    IF AtHour(predictions, current_hour) = {}
    THEN AdviceRaised("predictor", predictions, current_hour)
    ELSE LET current_pred == predictions[FirstOf(AtHour(predictions, current_hour))]
             avg_intensity == Mean(predictions)
             current_intensity == current_pred.predicted_intensity
             percent_vs_avg == PercentVs(current_intensity, avg_intensity)
             greenest == predictions[IdxMin(predictions)]
         IN  [service |-> "predictor", predictions |-> predictions,
              current_hour |-> current_hour, raised |-> FALSE,
              status |-> RecommendationStatus(percent_vs_avg),
              current_intensity |-> current_intensity,
              percent_vs_average |-> percent_vs_avg,
              greenest_hour |-> greenest.hour,
              hours_until_greenest |-> (greenest.hour - current_hour) % Hours]

\* ingestion_api.py lines 557-603, from the forecast on.
\* next((p for p in predictions if p['hour'] == current_hour), predictions[0])
ml_recommendation(predictions, current_hour) ==
    LET current_pred ==
            IF AtHour(predictions, current_hour) = {} THEN predictions[1]
            ELSE predictions[FirstOf(AtHour(predictions, current_hour))]
        avg_intensity == Mean(predictions)
        current_intensity == current_pred.predicted_intensity
        percent_vs_avg == PercentVs(current_intensity, avg_intensity)
        greenest == predictions[IdxMin(predictions)]
    IN  [service |-> "engine", predictions |-> predictions,
         current_hour |-> current_hour, raised |-> FALSE,
         status |-> MlRecommendationStatus(percent_vs_avg),
         current_intensity |-> current_intensity,
         percent_vs_average |-> percent_vs_avg,
         greenest_hour |-> greenest.hour,
         hours_until_greenest |-> (greenest.hour - current_hour) % Hours]

\* One recommendation from a forecast.  datetime.now(IST).hour is read
\* after the forecast was made: it is the hour of the first point, or the
\* next hour when the clock passed the hour in between.  The result
\* depends on nothing but the forecast and the hour, so one call per
\* behaviour covers every call.
Recommend ==
    /\ advice = NoAdvice
    /\ \E predictions \in AdvisorForecasts, late \in {0, 1} :
        LET current_hour == (predictions[1].hour + late) % Hours
        IN  /\ advice' \in { get_recommendation(predictions, current_hour),
                              ml_recommendation(predictions, current_hour) }
            /\ UNCHANGED <<storeVars, workerVars, resolverVars, clock, token,
                           ticks, embodiedCall, mainVars, modelVars, forecast>>

NextAdvisor == Recommend

SpecAdvisor == Init /\ [][NextAdvisor]_vars

----------------------------------------------------------------------------
(* Forecasts and greenest hours: predict_next_24h and get_greenest_hours of
   GridCarbonPredictor, and their counterparts in the ingestion API.  Here
   the model's yhat is in thousandths of a gCO2/kWh. *)

\* Wall-clock times of a call: midnight, 00:59, 10:05, 23:59, and 09:20 of
\* the day after.
ForecastTimes == {0, 59, 605, 1439, 1980}

\* yhat: 600.000 at every point, except v1 at point i and v2 at point j.
Yhat(i, v1, j, v2) ==
    [k \in 1..ForecastPoints |->
        IF k = i THEN v1 ELSE IF k = j THEN v2 ELSE 600000]

\* Two values that round to the same hundredth with the later one lower,
\* two equal low values, the lowest value at the last point, and no value
\* below the 23 equal ones.
YhatInputs ==
    { Yhat(3, 500004, 7, 500001),
      Yhat(3, 500000, 7, 500000),
      Yhat(ForecastPoints, 400000, 1, 450000),
      Yhat(2, 700000, 5, 650000) }

\* ?top=N of GET /api/v1/predict/greenest-hours and
\* GET /api/v1/ml/greenest-hours; 5 is the default.
TopNs == {0, 1, 3, 5, ForecastPoints, ForecastPoints + 1}

\* The indexes of points, lowest predicted_intensity first; points of equal
\* intensity in the order tie: "asc" is timestamp order.
ByIntensity(points, tie) ==
    LET Lower(i, j) ==
            \/ points[i].predicted_intensity < points[j].predicted_intensity
            \/ /\ points[i].predicted_intensity = points[j].predicted_intensity
               /\ IF tie = "asc" THEN i < j ELSE i > j
    IN  SortSeq([k \in DOMAIN points |-> k], Lower)

\* DataFrame.nsmallest(n, 'predicted_intensity'), keep='first': nothing for
\* n <= 0; for n below the number of rows the n lowest, equal values in
\* row order (a stable sort of the candidates); for n at or above the
\* number of rows pandas sorts the whole column with the default
\* quicksort, which leaves the order of equal values open (tie).
nsmallest(points, n, tie) ==
    IF n <= 0 THEN <<>>
    ELSE IF n >= Len(points) THEN ByIntensity(points, tie)
    ELSE SubSeq(ByIntensity(points, "asc"), 1, n)

\* GridCarbonPredictor.get_greenest_hours (lines 136-153), from the
\* forecast on: the rows of nsmallest with the intensity rounded to two
\* decimals.
get_greenest_hours(predictions, top_n, tie) ==
    LET greenest == nsmallest(predictions, top_n, tie)
    IN  [k \in DOMAIN greenest |->
            [timestamp |-> predictions[greenest[k]].timestamp,
             hour |-> predictions[greenest[k]].hour,
             predicted_intensity |->
                 Round2(predictions[greenest[k]].predicted_intensity)]]

\* ingestion_api.ml_greenest_hours (lines 540-541), from the forecast on:
\* sorted() is stable, and the slice is [:5] whatever the request says.
ml_greenest_hours(predictions) ==
    LET sorted_predictions == ByIntensity(predictions, "asc")
        greenest == SubSeq(sorted_predictions, 1, 5)
    IN  [k \in DOMAIN greenest |-> predictions[greenest[k]]]

\* One forecast call.  The result depends on nothing but the time and the
\* model, so one call per behaviour covers every call.
Predict ==
    /\ forecast = NoForecast
    /\ \E now \in ForecastTimes, yhat \in YhatInputs,
          service \in {"predictor", "engine"} :
        LET result == IF service = "predictor"
                      THEN predict_next_24h(now, yhat)
                      ELSE engine_predict_next_24h(now, yhat)
        IN  forecast' = [service |-> service, kind |-> "predict", now |-> now,
                         top_n |-> 0, predictions |-> result,
                         result |-> result]
    /\ UNCHANGED <<storeVars, workerVars, resolverVars, clock, token, ticks,
                   embodiedCall, mainVars, modelVars, advice>>

\* One greenest-hours call asking for the top_n greenest hours.
Greenest ==
    /\ forecast = NoForecast
    /\ \E now \in ForecastTimes, yhat \in YhatInputs, top_n \in TopNs :
        \/ \E tie \in {"asc", "desc"} :
             LET predictions == predict_next_24h(now, yhat)
             IN  forecast' = [service |-> "predictor", kind |-> "greenest",
                              now |-> now, top_n |-> top_n,
                              predictions |-> predictions,
                              result |-> get_greenest_hours(predictions,
                                                            top_n, tie)]
        \/ LET predictions == engine_predict_next_24h(now, yhat)
           IN  forecast' = [service |-> "engine", kind |-> "greenest",
                            now |-> now, top_n |-> top_n,
                            predictions |-> predictions,
                            result |-> ml_greenest_hours(predictions)]
    /\ UNCHANGED <<storeVars, workerVars, resolverVars, clock, token, ticks,
                   embodiedCall, mainVars, modelVars, advice>>

NextForecast ==
    \/ Predict
    \/ Greenest

SpecForecast == Init /\ [][NextForecast]_vars

----------------------------------------------------------------------------
(* Ingestion API: POST /api/v1/metrics/ingest inserts one device_metrics
   row and commits. *)

Ingest(limit) ==
    /\ ingests < limit
    /\ \E row \in IngestInputs : metrics' = Append(metrics, row)
    /\ ingests' = ingests + 1
    /\ UNCHANGED <<footprints, workerVars, resolverVars, clock, token, ticks>>
    /\ UNCHANGED otherVars

----------------------------------------------------------------------------
(* Worker: process_unprocessed_metrics *)

\* LEFT JOIN carbon_footprints c ON m.id = c.metric_id WHERE c.id IS NULL,
\* evaluated on the committed rows.
SelectsEveryMetric(id) == TRUE

IsUnprocessed(id) ==
    \A k \in DOMAIN footprints : footprints[k].metric_id # id

\* The order of the SERIAL id (insertion order) instead of the timestamp.
BeforeById(i, j, tie) == i < j

\* ORDER BY m.timestamp: rows with equal timestamps come in an order SQL
\* leaves open; tie is the order the database happens to use for them
\* (by id, or by id reversed).
Before(i, j, tie) ==
    \/ metrics[i].timestamp < metrics[j].timestamp
    \/ /\ metrics[i].timestamp = metrics[j].timestamp
       /\ IF tie = "asc" THEN i < j ELSE i > j

\* The ids of the SELECT's result: the unprocessed rows, ORDER BY
\* m.timestamp, LIMIT 100.
SelectUnprocessed(tie) ==
    LET ids == [k \in 1..Len(metrics) |-> k]
        Earlier(i, j) == Before(i, j, tie)
        ordered == SortSeq(SelectSeq(ids, IsUnprocessed), Earlier)
    IN  IF Len(ordered) <= BatchLimit THEN ordered
        ELSE SubSeq(ordered, 1, BatchLimit)

\* Line 258 with a sample taken to last an hour.
PowerKwhOfAnHour(total_power_watts) == Rat(total_power_watts * 3600, 1000 * 3600)

\* Line 258: the energy of one 5-second sample.
PowerKwh(total_power_watts) == Rat(total_power_watts * 5, 1000 * 3600)

\* One carbon_footprints row, computed from a metric row and its grid
\* intensity (lines 257-297).
FootprintRow(id, grid_intensity) ==
    LET metric == metrics[id]
        \* metric['device_type'] or 'laptop': NULL and '' give 'laptop'
        device_type == IF metric.device_type \in {None, Some("")} THEN "laptop"
                       ELSE Val(metric.device_type)
        power_kwh == PowerKwh(Val(metric.power))
        operational_carbon_gco2 == RatTimesInt(power_kwh, grid_intensity)
        embodied_carbon_gco2 ==
            calculate_embodied_carbon_per_measurement(device_type, 5).value
        embodied_total_kg ==
            DictGet(EMBODIED_CARBON_KG, device_type, EMBODIED_CARBON_KG["laptop"])
        device_lifetime ==
            DictGet(EXPECTED_LIFETIME_YEARS, device_type,
                    EXPECTED_LIFETIME_YEARS["laptop"])
        total_carbon_gco2 == RatAdd(operational_carbon_gco2, embodied_carbon_gco2)
    IN  [metric_id |-> id,
         device_type |-> device_type,
         power_kwh |-> power_kwh,
         grid_intensity |-> grid_intensity,
         operational_carbon_gco2 |-> operational_carbon_gco2,
         embodied_carbon_gco2 |-> embodied_carbon_gco2,
         embodied_total_kgco2e |-> embodied_total_kg,
         device_lifetime_years |-> device_lifetime,
         total_carbon_gco2 |-> total_carbon_gco2]

\* One iteration of `for metric in unprocessed`, for the k-th fetched row.
\* st is the state of the loop: the cache, the INSERTs so far, and whether
\* an exception has ended the loop; oc is what the GET produces if one is
\* made.
LoopBody(st, ids, k, now, oc) ==
    IF st.raised
    THEN st
    ELSE LET metric == metrics[ids[k]]
             r == ResolveGridIntensity(metric.lat, metric.lon, metric.cc, now,
                                       oc, st.cache, token)
         IN  IF r.path = "raised"
             THEN [raised |-> TRUE, rows |-> st.rows, cache |-> r.cache]
             ELSE IF metric.power = None
             \* None * 5 raises TypeError
             THEN [raised |-> TRUE, rows |-> st.rows, cache |-> r.cache]
             ELSE [raised |-> FALSE,
                   rows |-> Append(st.rows, FootprintRow(ids[k], r.value)),
                   cache |-> r.cache]

\* The iterations lo..hi of the loop, in order, started in state st (the
\* range is split in two halves that run one after the other, which keeps
\* the evaluation shallow for a batch of 100 rows).
RECURSIVE Loop(_, _, _, _, _, _)
Loop(st, ids, lo, hi, now, ocs) ==
    IF lo > hi THEN st
    ELSE IF lo = hi THEN LoopBody(st, ids, lo, now, ocs[lo])
    ELSE LET mid == (lo + hi) \div 2
             first == Loop(st, ids, lo, mid, now, ocs)
         IN  IF first.raised THEN first
             ELSE Loop(first, ids, mid + 1, hi, now, ocs)

\* prev/cur after a call of worker w ends with summary s:
\*   status   - "returned" | "raised"
\*   count    - the value returned (processed_count)
\*   selected - number of rows the SELECT fetched
\*   atSelect - number of device_metrics rows that existed at the SELECT
\*   stored   - number of committed carbon_footprints rows when the call ended
\*   rows     - the ids the SELECT fetched
Finish(w, s) ==
    /\ prev' = [prev EXCEPT ![w] = cur[w]]
    /\ cur' = [cur EXCEPT ![w] = s]

\* Lines 212-236: connect, SELECT; return 0 when there is nothing to do.
Select(w) ==
    /\ pc[w] = "idle"
    /\ \E tie \in {"asc", "desc"} :
         LET unprocessed == SelectUnprocessed(tie)
         IN  IF unprocessed = <<>>
             THEN /\ Finish(w, [status |-> "returned", count |-> 0,
                                selected |-> 0, atSelect |-> Len(metrics),
                                stored |-> Len(footprints), rows |-> <<>>])
                  /\ UNCHANGED <<pc, batch>>
             ELSE /\ pc' = [pc EXCEPT ![w] = "selected"]
                  /\ batch' = [batch EXCEPT ![w] =
                                 [rows |-> unprocessed, atSelect |-> Len(metrics)]]
                  /\ UNCHANGED <<cur, prev>>
    /\ UNCHANGED <<storeVars, txn, resolverVars, clock, token, ticks>>
    /\ UNCHANGED otherVars

\* The loop on a connection in autocommit mode: each INSERT is visible at
\* once, so the rows inserted before an exception stay.
ProcessBatchAutocommit(w) ==
    /\ pc[w] = "selected"
    /\ LET ids == batch[w].rows
           located == { k \in 1..Len(ids) :
                          metrics[ids[k]].lat # None /\ metrics[ids[k]].lon # None }
       IN  \E chosen \in [located -> WorkerFetchOutcomes] :
             LET ocs == [k \in 1..Len(ids) |->
                           IF k \in located THEN chosen[k] ELSE NoOutcome]
                 res == Loop([raised |-> FALSE, rows |-> <<>>, cache |-> cache[w]],
                             ids, 1, Len(ids), clock, ocs)
             IN  /\ cache' = [cache EXCEPT ![w] = res.cache]
                 /\ IF res.raised
                    THEN /\ pc' = [pc EXCEPT ![w] = "idle"]
                         /\ txn' = [txn EXCEPT ![w] = <<>>]
                         /\ batch' = [batch EXCEPT ![w] = NoBatch]
                         /\ footprints' = footprints \o res.rows
                         /\ Finish(w, [status |-> "raised", count |-> 0,
                                       selected |-> Len(ids),
                                       atSelect |-> batch[w].atSelect,
                                       stored |-> Len(footprints'),
                                       rows |-> ids])
                    ELSE /\ pc' = [pc EXCEPT ![w] = "inserted"]
                         /\ txn' = [txn EXCEPT ![w] = res.rows]
                         /\ UNCHANGED <<footprints, batch, cur, prev>>
    /\ UNCHANGED <<metrics, ingests, lastCall, fetchedAt, fetchedAtCoord, clock,
                   token, ticks>>
    /\ UNCHANGED otherVars

\* Lines 238-299: the loop over the fetched rows.  An exception leaves the
\* function: the connection is dropped with its INSERTs uncommitted, and
\* main() logs and sleeps.
ProcessBatch(w) ==
    /\ pc[w] = "selected"
    /\ LET ids == batch[w].rows
           located == { k \in 1..Len(ids) :
                          metrics[ids[k]].lat # None /\ metrics[ids[k]].lon # None }
       IN  \E chosen \in [located -> WorkerFetchOutcomes] :
             LET ocs == [k \in 1..Len(ids) |->
                           IF k \in located THEN chosen[k] ELSE NoOutcome]
                 res == Loop([raised |-> FALSE, rows |-> <<>>, cache |-> cache[w]],
                             ids, 1, Len(ids), clock, ocs)
             IN  /\ cache' = [cache EXCEPT ![w] = res.cache]
                 /\ IF res.raised
                    THEN /\ pc' = [pc EXCEPT ![w] = "idle"]
                         /\ txn' = [txn EXCEPT ![w] = <<>>]
                         /\ batch' = [batch EXCEPT ![w] = NoBatch]
                         /\ Finish(w, [status |-> "raised", count |-> 0,
                                       selected |-> Len(ids),
                                       atSelect |-> batch[w].atSelect,
                                       stored |-> Len(footprints),
                                       rows |-> ids])
                    ELSE /\ pc' = [pc EXCEPT ![w] = "inserted"]
                         /\ txn' = [txn EXCEPT ![w] = res.rows]
                         /\ UNCHANGED <<batch, cur, prev>>
    /\ UNCHANGED <<storeVars, lastCall, fetchedAt, fetchedAtCoord, clock,
                   token, ticks>>
    /\ UNCHANGED otherVars

\* The call without its conn.commit(): the INSERTs are lost when the
\* connection closes, and the count is returned all the same.
CommitMissing(w) ==
    /\ pc[w] = "inserted"
    /\ footprints' = footprints
    /\ txn' = [txn EXCEPT ![w] = <<>>]
    /\ pc' = [pc EXCEPT ![w] = "idle"]
    /\ batch' = [batch EXCEPT ![w] = NoBatch]
    /\ Finish(w, [status |-> "returned", count |-> Len(txn[w]),
                  selected |-> Len(batch[w].rows),
                  atSelect |-> batch[w].atSelect,
                  stored |-> Len(footprints), rows |-> batch[w].rows])
    /\ UNCHANGED <<metrics, ingests, resolverVars, clock, token, ticks>>
    /\ UNCHANGED otherVars

\* Lines 301-307: conn.commit() makes the INSERTs visible; return the count.
Commit(w) ==
    /\ pc[w] = "inserted"
    /\ footprints' = footprints \o txn[w]
    /\ txn' = [txn EXCEPT ![w] = <<>>]
    /\ pc' = [pc EXCEPT ![w] = "idle"]
    /\ batch' = [batch EXCEPT ![w] = NoBatch]
    /\ Finish(w, [status |-> "returned", count |-> Len(txn[w]),
                  selected |-> Len(batch[w].rows),
                  atSelect |-> batch[w].atSelect,
                  stored |-> Len(footprints'), rows |-> batch[w].rows])
    /\ UNCHANGED <<metrics, ingests, resolverVars, clock, token, ticks>>
    /\ UNCHANGED otherVars

\* Wall-clock time passes.
Tick ==
    /\ ticks < MaxTicks
    /\ \E d \in TickSteps : clock' = clock + d
    /\ ticks' = ticks + 1
    /\ UNCHANGED <<storeVars, workerVars, resolverVars, token>>
    /\ UNCHANGED otherVars

(* One worker instance, the ingestion API, the clock. *)
Next ==
    \/ Ingest(MaxIngest)
    \/ Select(1)
    \/ ProcessBatch(1)
    \/ Commit(1)
    \/ Tick

Spec == Init /\ [][Next]_vars

(* One worker instance that does poll: main()'s `while True` calls
   process_unprocessed_metrics again 10 seconds after every return and
   after every exception, so each step of a cycle that can be taken is
   taken.  No Electricity Maps token is set, so that no cycle fails for
   what the provider answers. *)
InitDrain == Init /\ ~token

\* The loop of a cycle ends, by an exception or at its last row.  Of the
\* actions of Next only ProcessBatch(1) leaves "selected", and it can be
\* taken in every state where pc[1] = "selected": the steps of this action
\* are the steps of ProcessBatch(1), told by pc alone.
LoopEnds ==
    /\ pc[1] = "selected"
    /\ pc' \in [AllWorkers -> {"idle", "inserted"}]

SpecDrain ==
    /\ InitDrain
    /\ [][Next]_vars
    /\ WF_vars(Select(1))
    /\ WF_pc(LoopEnds)
    /\ WF_vars(Commit(1))

(* Two worker instances against the same store. *)
NextMulti ==
    \/ Ingest(MaxMultiIngest)
    \/ \E w \in AllWorkers : Select(w)
    \/ \E w \in AllWorkers : ProcessBatch(w)
    \/ \E w \in AllWorkers : Commit(w)

SpecMulti == Init /\ [][NextMulti]_vars

(* One worker started against a store that already holds a backlog of
   unprocessed rows: two rows, or one row more than a poll fetches. *)
BacklogOf(n) == [k \in 1..n |-> Reading(k, Some(10), NoCoord, Some("IN"))]

InitBacklog ==
    /\ metrics \in { BacklogOf(2), BacklogOf(BatchLimit + 1) }
    /\ footprints = <<>>
    /\ pc = [w \in AllWorkers |-> "idle"]
    /\ batch = [w \in AllWorkers |-> NoBatch]
    /\ txn = [w \in AllWorkers |-> <<>>]
    /\ cache = [w \in AllWorkers |-> <<>>]
    /\ clock = 0
    /\ token \in BOOLEAN
    /\ cur = [w \in AllWorkers |-> NoSummary]
    /\ prev = [w \in AllWorkers |-> NoSummary]
    /\ lastCall = NoCallYet
    /\ fetchedAt = <<>>
    /\ fetchedAtCoord = <<>>
    /\ ticks = 0
    /\ ingests = 0
    /\ OtherInit

NextBacklog ==
    \/ Ingest(MaxBacklogIngest)
    \/ Select(1)
    \/ ProcessBatch(1)
    \/ Commit(1)

SpecBacklog == InitBacklog /\ [][NextBacklog]_vars

----------------------------------------------------------------------------
(* One worker instance draining rows of several device classes. *)

IngestDevice(limit) ==
    /\ ingests < limit
    /\ \E row \in DeviceInputs : metrics' = Append(metrics, row)
    /\ ingests' = ingests + 1
    /\ UNCHANGED <<footprints, workerVars, resolverVars, clock, token, ticks>>
    /\ UNCHANGED otherVars

NextAttribution ==
    \/ IngestDevice(MaxDeviceIngest)
    \/ Select(1)
    \/ ProcessBatch(1)
    \/ Commit(1)

SpecAttribution == Init /\ [][NextAttribution]_vars

----------------------------------------------------------------------------
(* The worker process: main(), against a store that can be unreachable. *)

\* The PostgreSQL server stops accepting connections and drops the open
\* ones.
StoreFails ==
    /\ storeUp
    /\ outages < MaxOutages
    /\ storeUp' = FALSE
    /\ outages' = outages + 1
    /\ UNCHANGED <<storeVars, workerVars, resolverVars, clock, token, ticks,
                   embodiedCall, mainPc, advisorVars, modelVars>>

StoreRecovers ==
    /\ ~storeUp
    /\ storeUp' = TRUE
    /\ UNCHANGED <<storeVars, workerVars, resolverVars, clock, token, ticks,
                   embodiedCall, mainPc, outages, advisorVars, modelVars>>

\* Lines 327-336: time.sleep(5), init_carbon_table(); when it raises,
\* main() prints, sleeps 10 seconds and returns, which ends the process.
StartUp ==
    /\ mainPc = "starting"
    /\ mainPc' = IF storeUp THEN "polling" ELSE "exited"
    /\ UNCHANGED <<storeVars, workerVars, resolverVars, clock, token, ticks,
                   embodiedCall, storeUp, outages, advisorVars, modelVars>>

\* Lines 341-350 with the store down: psycopg2 raises from connect, execute
\* or commit, wherever the call is; the connection's INSERTs are lost,
\* main() prints, sleeps 10 seconds and calls again.
PollFails(w) ==
    /\ mainPc = "polling"
    /\ ~storeUp
    /\ pc' = [pc EXCEPT ![w] = "idle"]
    /\ txn' = [txn EXCEPT ![w] = <<>>]
    /\ batch' = [batch EXCEPT ![w] = NoBatch]
    /\ Finish(w, [status |-> "raised", count |-> 0,
                  selected |-> Len(batch[w].rows),
                  atSelect |-> batch[w].atSelect,
                  stored |-> Len(footprints), rows |-> batch[w].rows])
    /\ UNCHANGED <<storeVars, resolverVars, clock, token, ticks, otherVars>>

\* Lines 341-343 with the store up: the steps of
\* process_unprocessed_metrics.
PollStep(w) ==
    /\ mainPc = "polling"
    /\ storeUp
    /\ \/ Select(w)
       \/ ProcessBatch(w)
       \/ Commit(w)

\* The ingestion API needs the store as well.
IngestWhenUp(limit) ==
    /\ storeUp
    /\ Ingest(limit)

NextMain ==
    \/ StoreFails
    \/ StoreRecovers
    \/ StartUp
    \/ PollFails(1)
    \/ PollStep(1)
    \/ IngestWhenUp(MaxMainIngest)

SpecMain == Init /\ [][NextMain]_vars

----------------------------------------------------------------------------
(* The forecast model: its file, the processes that load it, the trainings
   that write it. *)

Endpoints == {"predict", "greenest", "recommendation"}

\* What a successful call of an endpoint returns.
ResultOf(endpoint) ==
    IF endpoint = "predict" THEN "forecast" ELSE endpoint

\* GridCarbonPredictor.load_model (lines 90-101) on a path holding file:
\* FileNotFoundError without opening when nothing is there; pickle.load
\* raises on an incomplete pickle; otherwise self.model is the model read.
load_model(file) ==
    IF file = Absent THEN [raised |-> TRUE, model |-> None, read |-> FALSE]
    ELSE IF file = Partial THEN [raised |-> TRUE, model |-> None, read |-> TRUE]
    ELSE [raised |-> FALSE, model |-> Some(file.version), read |-> TRUE]

\* A method that answers from made-up values when no model can be loaded.
PredictorMethodWithStub(endpoint, model, file) ==
    LET l == IF model = None THEN load_model(file)
             ELSE [raised |-> FALSE, model |-> model, read |-> FALSE]
    IN  [outcome |-> ResultOf(endpoint), mem |-> l.model, read |-> l.read,
         model |-> IF l.model = None THEN 0 ELSE Val(l.model)]

\* GridCarbonPredictor.predict_next_24h (lines 103-132) and the methods
\* built on it, get_greenest_hours and get_recommendation: load when
\* self.model is None, then self.model.predict, which raises for a Prophet
\* object that was not fitted.  The result is what the caller gets, the
\* model in memory afterwards, whether the file was read, and the training
\* whose model made the forecast.
PredictorMethod(endpoint, model, file) ==
    LET l == IF model = None THEN load_model(file)
             ELSE [raised |-> FALSE, model |-> model, read |-> FALSE]
    IN  IF l.raised \/ l.model = Unfitted
        THEN [outcome |-> "raised", mem |-> l.model, read |-> l.read, model |-> 0]
        ELSE [outcome |-> ResultOf(endpoint), mem |-> l.model, read |-> l.read,
              model |-> Val(l.model)]

\* predictor_api.py lines 38-99: 503 when predictor.model is falsy,
\* otherwise the method, with any exception turned into a 500.
PredictorEndpoint(endpoint, model, file) ==
    IF model = None
    THEN [outcome |-> "unavailable", mem |-> model, read |-> FALSE, model |-> 0]
    ELSE LET r == PredictorMethod(endpoint, model, file)
         IN  IF r.outcome = "raised" THEN [r EXCEPT !.outcome = "error"] ELSE r

\* ingestion_api.py lines 96-128: nothing to do when ml_model is set;
\* otherwise open and unpickle the file if the path exists.
load_ml_model(ml_model, file) ==
    IF ml_model # None THEN [model |-> ml_model, read |-> FALSE]
    ELSE IF file = Absent THEN [model |-> None, read |-> FALSE]
    ELSE IF file = Partial THEN [model |-> None, read |-> TRUE]
    ELSE [model |-> Some(file.version), read |-> TRUE]

\* ingestion_api.py: /api/v1/ml/predict-24h (503-526), /greenest-hours
\* (528-547) and /recommendation (549-603).  The first two call
\* load_ml_model and answer 503 without a model; the third calls
\* predict_next_24h (130-163), which loads lazily and returns None without
\* a model, and answers 500 then.
EngineEndpoint(endpoint, ml_model, file) ==
    LET l == load_ml_model(ml_model, file)
    IN  IF l.model = None
        THEN [outcome |-> IF endpoint = "recommendation" THEN "error"
                          ELSE "unavailable",
              mem |-> None, read |-> l.read, model |-> 0]
        ELSE [outcome |-> ResultOf(endpoint), mem |-> l.model, read |-> l.read,
              model |-> Val(l.model)]

\* One prediction call to a process.
Call(process, endpoint) ==
    LET file == blob[FileOf(process)]
        r == IF process = "library"
             THEN PredictorMethod(endpoint, mem[process], file)
             ELSE IF process = "predictor_api"
             THEN PredictorEndpoint(endpoint, mem[process], file)
             ELSE EngineEndpoint(endpoint, mem[process], file)
    IN  /\ process = "predictor_api" => api = "up"
        /\ mem' = [mem EXCEPT ![process] = r.mem]
        /\ mlCall' =
              [process |-> process, endpoint |-> endpoint,
               memBefore |-> mem[process], blobBefore |-> file,
               replacing |-> IF trainer[FileOf(process)].stage = "writing"
                             THEN trainer[FileOf(process)].old ELSE Absent,
               read |-> r.read, outcome |-> r.outcome, model |-> r.model]
        /\ UNCHANGED <<storeVars, workerVars, resolverVars, clock, token, ticks,
                       embodiedCall, mainVars, advisorVars, blob, trainer, api,
                       trainings>>

\* predictor_api.py lines 16-24, at import: load_model, with only
\* FileNotFoundError caught; any other exception ends the process.
ApiStart ==
    /\ api \in {"stopped", "crashed"}
    /\ LET l == load_model(blob["predictor"])
       IN  /\ api' = IF l.raised /\ l.read THEN "crashed" ELSE "up"
           /\ mem' = [mem EXCEPT !["predictor_api"] = l.model]
    /\ UNCHANGED <<storeVars, workerVars, resolverVars, clock, token, ticks,
                   embodiedCall, mainVars, advisorVars, blob, trainer, trainings,
                   mlCall>>

\* A training script (ml-predictor/train_model.py through
\* GridCarbonPredictor.train lines 79-82, profiling-engine/train_model.py
\* lines 96-101) has fitted its model and opens the path with 'wb', which
\* empties the file there.
TrainOpen(f) ==
    /\ trainer[f].stage = "idle"
    /\ trainings < MaxTrainings
    /\ trainings' = trainings + 1
    /\ trainer' = [trainer EXCEPT ![f] =
                     [stage |-> "writing", old |-> blob[f],
                      new |-> trainings + 1, inApi |-> FALSE]]
    /\ blob' = [blob EXCEPT ![f] = Partial]
    /\ UNCHANGED <<storeVars, workerVars, resolverVars, clock, token, ticks,
                   embodiedCall, mainVars, advisorVars, mem, api, mlCall>>

\* pickle.dump has written the whole model and the file is closed.
TrainDump(f) ==
    /\ trainer[f].stage = "writing"
    /\ blob' = [blob EXCEPT ![f] = Complete(trainer[f].new)]
    /\ trainer' = [trainer EXCEPT ![f] = NoTraining]
    /\ UNCHANGED <<storeVars, workerVars, resolverVars, clock, token, ticks,
                   embodiedCall, mainVars, advisorVars, mem, api, trainings, mlCall>>

\* The writing process dies, or the disk is full, before the dump is
\* complete.
TrainAbort(f) ==
    /\ trainer[f].stage = "writing"
    /\ trainer' = [trainer EXCEPT ![f] = NoTraining]
    /\ UNCHANGED <<storeVars, workerVars, resolverVars, clock, token, ticks,
                   embodiedCall, mainVars, advisorVars, blob, mem, api, trainings,
                   mlCall>>

\* POST /api/v1/train (predictor_api.py 101-119) reaches
\* GridCarbonPredictor.train line 59: self.model is a new Prophet object.
ApiTrainBegin ==
    /\ api = "up"
    /\ trainer["predictor"].stage = "idle"
    /\ trainings < MaxTrainings
    /\ trainings' = trainings + 1
    /\ trainer' = [trainer EXCEPT !["predictor"] =
                     [stage |-> "fitting", old |-> blob["predictor"],
                      new |-> trainings + 1, inApi |-> TRUE]]
    /\ mem' = [mem EXCEPT !["predictor_api"] = Unfitted]
    /\ UNCHANGED <<storeVars, workerVars, resolverVars, clock, token, ticks,
                   embodiedCall, mainVars, advisorVars, blob, api, mlCall>>

\* Line 77, self.model.fit(df): the object becomes a fitted model, or fit
\* raises and the endpoint answers 500 with self.model left as it is.
ApiTrainFit ==
    /\ trainer["predictor"].stage = "fitting"
    /\ \E fitted \in BOOLEAN :
         IF fitted
         THEN /\ mem' = [mem EXCEPT !["predictor_api"] =
                           Some(trainer["predictor"].new)]
              /\ trainer' = [trainer EXCEPT !["predictor"].stage = "fitted"]
         ELSE /\ trainer' = [trainer EXCEPT !["predictor"] = NoTraining]
              /\ UNCHANGED mem
    /\ UNCHANGED <<storeVars, workerVars, resolverVars, clock, token, ticks,
                   embodiedCall, mainVars, advisorVars, blob, api, trainings, mlCall>>

\* Lines 80-81: open(self.model_path, 'wb') empties the file.
ApiTrainOpen ==
    /\ trainer["predictor"].stage = "fitted"
    /\ trainer' = [trainer EXCEPT !["predictor"].stage = "writing",
                                  !["predictor"].old = blob["predictor"]]
    /\ blob' = [blob EXCEPT !["predictor"] = Partial]
    /\ UNCHANGED <<storeVars, workerVars, resolverVars, clock, token, ticks,
                   embodiedCall, mainVars, advisorVars, mem, api, trainings, mlCall>>

NextModel ==
    \/ \E process \in ModelProcesses, endpoint \in Endpoints :
          Call(process, endpoint)
    \/ ApiStart
    \/ \E f \in ModelFiles : TrainOpen(f)
    \/ \E f \in ModelFiles : TrainDump(f)
    \/ \E f \in ModelFiles : TrainAbort(f)
    \/ ApiTrainBegin
    \/ ApiTrainFit
    \/ ApiTrainOpen

SpecModel == Init /\ [][NextModel]_vars

----------------------------------------------------------------------------
(* Claims about the processing loop *)

FootprintsOf(id) == { k \in DOMAIN footprints : footprints[k].metric_id = id }

\* C1 (Spec: one worker): no device_metrics row is referenced by more than
\* one carbon_footprints row, and a row that has a footprint is neither in
\* the fetched batch nor among the uncommitted INSERTs of a running call.
C1_OneFootprintPerReading ==
    /\ \A id \in DOMAIN metrics : Cardinality(FootprintsOf(id)) <= 1
    /\ \A k \in DOMAIN batch[1].rows : FootprintsOf(batch[1].rows[k]) = {}
    /\ \A k \in DOMAIN txn[1] :
         /\ FootprintsOf(txn[1][k].metric_id) = {}
         /\ \A j \in DOMAIN txn[1] :
              txn[1][j].metric_id = txn[1][k].metric_id => j = k

\* C1 witness: two successive poll cycles each stored footprints (rows were ingested
\* between them).
C1_Witness ==
    /\ prev[1].status = "returned" /\ prev[1].count > 0
    /\ cur[1].status = "returned" /\ cur[1].count > 0
    /\ Len(footprints) = prev[1].count + cur[1].count

\* A row whose attribution cannot fail: it has a power value and needs no
\* live fetch.
CannotFail(id) ==
    /\ metrics[id].power # None
    /\ (metrics[id].lat = None \/ metrics[id].lon = None)

\* C2: when a poll cycle hits a failing row, the other rows of its batch
\* still have their footprints at the end of that cycle.
C2_FailuresIsolated ==
    cur[1].status = "raised"
        => \A k \in DOMAIN cur[1].rows :
             CannotFail(cur[1].rows[k]) => FootprintsOf(cur[1].rows[k]) # {}

\* C3 (SpecMulti: two workers): no two carbon_footprints rows reference the
\* same device_metrics row.
C3_NoDuplicateUnderConcurrency ==
    \A j, k \in DOMAIN footprints :
        footprints[j].metric_id = footprints[k].metric_id => j = k

C5_NegativePowerRejected ==
    \A k \in DOMAIN footprints :
        /\ footprints[k].power_kwh.n >= 0
        /\ footprints[k].operational_carbon_gco2.n >= 0
        /\ Val(metrics[footprints[k].metric_id].power) >= 0

----------------------------------------------------------------------------
(* Claims about the grid-intensity resolver (checked under SpecResolver) *)

\* Outcomes of the GET that are failures of the live fetch.
FailedFetchKinds ==
    {"network_error", "timeout", "status_not_200", "body_not_json",
     "body_not_object", "field_absent", "field_text", "field_not_scalar"}

\* The failures for which fetch_grid_intensity_by_location returns None.
ReturnsNoneKinds ==
    {"network_error", "timeout", "status_not_200", "body_not_json",
     "field_absent", "field_text"}

\* C6: the resolver never raises: whenever the GET was made and failed
\* (network error, timeout, non-200, body not JSON, body not an object,
\* carbonIntensity missing or not a number), the call returns the fallback
\* table value of its country code.
C6_FailedFetchFallsBack ==
    (lastCall.requested /\ lastCall.oc.kind \in FailedFetchKinds)
        => (/\ lastCall.path = "fallback"
            /\ lastCall.value = FALLBACK_GRID_INTENSITY(lastCall.cc))

\* C7 (as stated): after a successful live fetch for a coordinate pair, a
\* call with the same coordinates less than 300 s after that fetch is served
\* from the cache without a GET, and a call 300 s or more after it makes a
\* new GET.
C7_TtlPerCoordinates ==
    (lastCall.located /\ lastCall.coordFetched # None)
        => LET age == lastCall.now - Val(lastCall.coordFetched)
           IN  /\ age < 300 => (lastCall.path = "cache" /\ ~lastCall.requested)
               /\ age >= 300 => lastCall.requested

\* C7 (amended): the same, per spatial bucket: a call whose rounded
\* coordinates are those of a bucket is served from the cache without a GET
\* when made less than 300 s after the bucket's latest successful live fetch
\* (by any coordinates of the bucket), and makes a new GET when made 300 s
\* or more after it.
C7_TtlPerBucket ==
    (lastCall.located /\ lastCall.keyFetched # None)
        => LET age == lastCall.now - Val(lastCall.keyFetched)
           IN  /\ age < 300 => (lastCall.path = "cache" /\ ~lastCall.requested)
               /\ age >= 300 => lastCall.requested

\* C7 witness: a call made exactly 300 s after the bucket's latest successful fetch
\* fetched again, successfully.
C7_Witness ==
    /\ lastCall.located
    /\ lastCall.keyFetched # None
    /\ lastCall.now - Val(lastCall.keyFetched) = 300
    /\ lastCall.requested
    /\ lastCall.path = "live"

C9_Table(cc) ==
    IF cc = Some("IN") THEN 632
    ELSE IF cc = Some("US") THEN 417
    ELSE IF cc = Some("EU") THEN 295
    ELSE IF cc = Some("CN") THEN 555
    ELSE 475

C10_NoTokenNoRequest ==
    ~token => /\ ~lastCall.requested
              /\ lastCall.path \in {"none", "fallback"}
              /\ lastCall.oc = NoOutcome
              /\ cache[1] = <<>>

\* C10 witness: without a token, a call with coordinates was resolved by fallback.
C10_Witness ==
    /\ ~token
    /\ lastCall.located
    /\ lastCall.path = "fallback"
    /\ ~lastCall.requested


----------------------------------------------------------------------------
(* Carbon arithmetic *)

\* r scaled to the denominator l (a multiple of r.d)
Scaled(r, l) == r.n * (l \div r.d)

\* C11 (SpecAttribution): in every committed carbon_footprints row (and every row INSERTed
\* but not yet committed) total_carbon_gco2 is operational_carbon_gco2 +
\* embodied_carbon_gco2.
C11_TotalIsSum ==
    \A f \in {footprints[k] : k \in DOMAIN footprints}
             \cup {txn[1][k] : k \in DOMAIN txn[1]} :
        LET l == Lcm(Lcm(f.total_carbon_gco2.d, f.operational_carbon_gco2.d),
                     f.embodied_carbon_gco2.d)
        IN  Scaled(f.total_carbon_gco2, l) =
                Scaled(f.operational_carbon_gco2, l)
                    + Scaled(f.embodied_carbon_gco2, l)

\* C11 witness: two committed rows, one with a positive operational part
\* and one with a zero or negative one, both with a positive embodied part.
C11_Witness ==
    /\ Len(footprints) = 2
    /\ \E k \in DOMAIN footprints : footprints[k].operational_carbon_gco2.n > 0
    /\ \E k \in DOMAIN footprints : footprints[k].operational_carbon_gco2.n <= 0
    /\ \A k \in DOMAIN footprints : footprints[k].embodied_carbon_gco2.n > 0

\* C12 (SpecAttribution): in every committed row power_kwh is total_power_watts * 5 /
\* 3,600,000 of the metric row it references, operational_carbon_gco2 is
\* power_kwh times the grid intensity stored in the same row, and a power
\* of zero gives an operational carbon of zero.
C12_UnitConversion ==
    \A k \in DOMAIN footprints :
        LET f == footprints[k]
            watts == Val(metrics[f.metric_id].power)
        IN  /\ f.power_kwh.n * 3600000 = watts * 5 * f.power_kwh.d
            /\ f.operational_carbon_gco2.n * f.power_kwh.d =
                   f.power_kwh.n * f.grid_intensity * f.operational_carbon_gco2.d
            /\ watts = 0 => f.operational_carbon_gco2 = [n |-> 0, d |-> 1]

\* C12 witness: a row for a reading of 0 W and a row for a reading of 10 W
\* whose intensity came from a live fetch are both stored.
C12_Witness ==
    /\ \E k \in DOMAIN footprints :
          Val(metrics[footprints[k].metric_id].power) = 0
    /\ \E k \in DOMAIN footprints :
          /\ Val(metrics[footprints[k].metric_id].power) = 10
          /\ footprints[k].grid_intensity = 120

\* The profile table as the specification gives it: total embodied kg and
\* lifetime in half years.
C13_Profile(device_type) ==
    CASE device_type = "smartphone" -> [kg |-> 50, halves |-> 5]
      [] device_type = "tablet" -> [kg |-> 100, halves |-> 6]
      [] device_type = "laptop" -> [kg |-> 200, halves |-> 8]
      [] device_type = "desktop" -> [kg |-> 300, halves |-> 10]
      [] device_type = "workstation" -> [kg |-> 400, halves |-> 10]
      [] device_type = "server" -> [kg |-> 1500, halves |-> 10]

C13_Classes ==
    {"smartphone", "tablet", "laptop", "desktop", "workstation", "server"}

\* C13 (SpecEmbodied): for every device class of the table and every
\* positive interval, the function returns totalKg * 1000 / (lifetimeYears
\* * 365 * 24 * 3600 / interval); for the laptop at 5 seconds that is
\* 200000 / 25228800; and the value times the number of intervals in the
\* lifetime is the total embodied grams.
C13_Amortization ==
    (/\ embodiedCall.called
     /\ Val(embodiedCall.device_type) \in C13_Classes
     /\ embodiedCall.interval > 0)
        => LET p == C13_Profile(Val(embodiedCall.device_type))
               i == embodiedCall.interval
               samples == Rat(p.halves * 365 * 24 * 3600, 2 * i)
           IN  /\ ~embodiedCall.raised
               /\ embodiedCall.value =
                      Rat(p.kg * 1000 * 2 * i, p.halves * 365 * 24 * 3600)
               /\ (Val(embodiedCall.device_type) = "laptop" /\ i = 5)
                      => embodiedCall.value = Rat(200000, 25228800)
               /\ RatMul(embodiedCall.value, samples) = FromInt(p.kg * 1000)

\* C13 witness: the function was called for the laptop class at 5 seconds.
C13_Witness ==
    /\ embodiedCall.called
    /\ embodiedCall.device_type = Some("laptop")
    /\ embodiedCall.interval = 5
    /\ ~embodiedCall.raised

\* A metric row whose device class is absent or not in the table.
C14_UnknownClass(id) ==
    \/ metrics[id].device_type = None
    \/ Val(metrics[id].device_type) \notin C13_Classes

\* C14 (SpecAttribution): a row for a reading of an absent or unknown device class carries
\* the laptop profile (200 kg, 4 years) and the laptop's amortized value;
\* every row's embodied_carbon_gco2 is the amortization of the
\* embodied_total_kgco2e and device_lifetime_years stored in the same row;
\* and a poll cycle never fails on a batch whose rows all have a power
\* value and no location, whatever their device classes.
C14_UnknownClassIsLaptop ==
    /\ \A k \in DOMAIN footprints :
          LET f == footprints[k]
          IN  /\ C14_UnknownClass(f.metric_id)
                    => /\ f.embodied_total_kgco2e = 200
                       /\ f.device_lifetime_years = [n |-> 4, d |-> 1]
                       /\ f.embodied_carbon_gco2 = Rat(200000, 25228800)
              /\ f.embodied_carbon_gco2 =
                    RatDiv(FromInt(f.embodied_total_kgco2e * 1000),
                           RatDiv(RatMul(f.device_lifetime_years,
                                         FromInt(365 * 24 * 3600)),
                                  FromInt(5)))
    /\ cur[1].status = "raised"
          => \E k \in DOMAIN cur[1].rows : ~CannotFail(cur[1].rows[k])

\* C14 witness: a reading without device class and a reading of the class
\* "smartwatch" both have their footprint.
C14_Witness ==
    /\ \E k \in DOMAIN footprints :
          metrics[footprints[k].metric_id].device_type = None
    /\ \E k \in DOMAIN footprints :
          metrics[footprints[k].metric_id].device_type = Some("smartwatch")

----------------------------------------------------------------------------
(* The worker process *)

\* C15 (SpecMain): the worker process never terminates on a store failure:
\* there is no way from main() to its end while nobody stops the worker.
C15_StoreFailureNeverFatal == mainPc # "exited"

----------------------------------------------------------------------------
(* Scheduling recommendation *)

\* 100 * (current * N - sum): percentVsAverage times the sum of the N
\* intensities of the forecast of the latest recommendation.
C16_PercentTimesSum ==
    100 * (advice.current_intensity * Len(advice.predictions)
             - SumTo(advice.predictions, Len(advice.predictions)))

C16_Sum == SumTo(advice.predictions, Len(advice.predictions))

\* C16 (SpecAdvisor): a recommendation's status is "excellent" when
\* percentVsAverage < -15, "good" when -15 <= percentVsAverage < 0,
\* "moderate" when 0 <= percentVsAverage < 15 and "poor" when it is >= 15,
\* with percentVsAverage = (current - average) / average * 100 over all
\* points of the forecast, which is also the percentage the call reports.
C16_Tiers ==
    (advice.service # "none" /\ ~advice.raised)
        => /\ advice.percent_vs_average = Rat(C16_PercentTimesSum, C16_Sum)
           /\ advice.status \in {"excellent", "good", "moderate", "poor"}
           /\ advice.status = "excellent"
                 <=> C16_PercentTimesSum < -15 * C16_Sum
           /\ advice.status = "good"
                 <=> /\ -15 * C16_Sum <= C16_PercentTimesSum
                     /\ C16_PercentTimesSum < 0
           /\ advice.status = "moderate"
                 <=> /\ 0 <= C16_PercentTimesSum
                     /\ C16_PercentTimesSum < 15 * C16_Sum
           /\ advice.status = "poor"
                 <=> 15 * C16_Sum <= C16_PercentTimesSum

\* C16 witness: GridCarbonPredictor classified a current intensity of 690
\* against an average above 600 as "moderate".
C16_Witness ==
    /\ advice.service = "predictor"
    /\ advice.status = "moderate"
    /\ advice.current_intensity = 690
    /\ C16_Sum > 600 * Len(advice.predictions)

\* C17 as stated: exactly 15% above the average is "moderate" and exactly
\* 15% below it is "excellent".
C17_BoundariesAsStated ==
    (advice.service # "none" /\ ~advice.raised)
        => /\ advice.percent_vs_average = [n |-> 15, d |-> 1]
                 => advice.status = "moderate"
           /\ advice.percent_vs_average = [n |-> -15, d |-> 1]
                 => advice.status = "excellent"

\* C17 amended (SpecAdvisor): exactly 15% above the average is "poor" and
\* exactly 15% below it is "good".
C17_BoundariesOfTheCode ==
    (advice.service # "none" /\ ~advice.raised)
        => /\ C16_PercentTimesSum = 15 * C16_Sum => advice.status = "poor"
           /\ C16_PercentTimesSum = -15 * C16_Sum => advice.status = "good"

\* C17 witness: the ingestion API classified a current intensity of 510
\* against an average of exactly 600.
C17_Witness ==
    /\ advice.service = "engine"
    /\ advice.current_intensity = 510
    /\ C16_Sum = 600 * Len(advice.predictions)
    /\ advice.percent_vs_average = [n |-> -15, d |-> 1]

----------------------------------------------------------------------------
(* The forecast model *)

\* The latest prediction call found no trained model: none in memory and
\* no complete file to load, or in memory a Prophet object never fitted.
C18_NoModelAvailable ==
    \/ mlCall.memBefore = None /\ mlCall.blobBefore.kind # "complete"
    \/ mlCall.memBefore = Unfitted

\* C18 (SpecModel): a prediction, greenest-hours or recommendation call
\* that finds no trained model returns an unavailable or error result (or
\* raises, when GridCarbonPredictor is called directly) and no forecast;
\* and every forecast, list or recommendation returned was made by a
\* fitted model that was in memory or in the file.
C18_UnavailableIsExplicit ==
    mlCall.process # "none"
        => /\ C18_NoModelAvailable
                 => /\ mlCall.outcome \in {"unavailable", "error", "raised"}
                    /\ mlCall.model = 0
           /\ mlCall.outcome \in {"forecast", "greenest", "recommendation"}
                 => /\ mlCall.model >= 1
                    /\ \/ mlCall.memBefore = Some(mlCall.model)
                       \/ mlCall.blobBefore = Complete(mlCall.model)

\* C18 witness: GridCarbonPredictor was asked for a recommendation with
\* nothing in memory while the file was being written.
C18_Witness ==
    /\ mlCall.process = "library"
    /\ mlCall.endpoint = "recommendation"
    /\ mlCall.memBefore = None
    /\ mlCall.blobBefore = Partial
    /\ mlCall.outcome = "raised"

\* C19 (SpecModel): a prediction call that finds no model in memory reads
\* the persisted model if the file exists and answers from it, and a call
\* that finds a loaded model in memory does not read storage.
C19_LazyLoadOnce ==
    mlCall.process # "none"
        => /\ (mlCall.memBefore = None /\ mlCall.blobBefore.kind = "complete")
                 => /\ mlCall.read
                    /\ mlCall.outcome = ResultOf(mlCall.endpoint)
                    /\ mlCall.model = mlCall.blobBefore.version
           /\ (mlCall.memBefore # None /\ mlCall.memBefore # Unfitted)
                 => /\ ~mlCall.read
                    /\ mlCall.model = Val(mlCall.memBefore)

\* C20 (SpecModel): a prediction call that reads the model file while a
\* retraining is replacing a complete blob reads a complete blob.
C20_AtomicReplace ==
    (mlCall.read /\ mlCall.replacing.kind = "complete")
        => mlCall.blobBefore.kind = "complete"

\* C25: the cache changes only in a call whose live fetch succeeded, and
\* then only at the rounded (lat, lon) key of that call, which receives the
\* fetched value and the time of the call together; a cache hit, a fetch
\* that returned None or raised, and a fallback resolution leave the whole
\* cache as it was.
C25_Key == CacheKey(Val(lastCall.loc.lat), Val(lastCall.loc.lon))

C25_CacheFrame ==
    [][ /\ cache'[1] # cache[1]
            => /\ lastCall'.path = "live"
               /\ lastCall'.located
               /\ cache'[1] = Put(cache[1], C25_Key',
                                  [value |-> lastCall'.oc.value,
                                   timestamp |-> lastCall'.now])
        /\ lastCall'.path \in {"cache", "fallback", "raised"}
            => cache' = cache ]_vars

\* A live fetch overwrote the expired entry of its key while the entry of
\* another key stayed.
C25_Witness ==
    /\ lastCall.path = "live"
    /\ lastCall.entryBefore # None
    /\ Val(lastCall.entryBefore).value # lastCall.value
    /\ cache[1][C25_Key] = [value |-> lastCall.value, timestamp |-> lastCall.now]
    /\ \E k \in DOMAIN cache[1] : k # C25_Key /\ cache[1][k].timestamp < lastCall.now

\* C30: every cache entry is the value and time of the latest successful
\* live fetch of its key, never a fallback; and the call that follows a
\* failed fetch for the same key is not served from the cache: it calls the
\* fetch again (and sends the request when a token is set).
C30_LiveValues == { oc.value : oc \in { o \in FetchOutcomes :
                                           o.kind \in {"field_number", "field_numeric_text"} } }

C30_FallbackNeverCached ==
    /\ \A k \in DOMAIN cache[1] :
          /\ k \in DOMAIN fetchedAt
          /\ cache[1][k].timestamp = fetchedAt[k]
          /\ cache[1][k].value \in C30_LiveValues
    /\ lastCall.afterFailure
          => /\ lastCall.path # "cache"
             /\ token => lastCall.requested

\* A fetch failed, and the next call for the same bucket fetched again and
\* got a value.
C30_Witness ==
    /\ lastCall.afterFailure
    /\ lastCall.requested
    /\ lastCall.path = "live"
    /\ lastCall.entryBefore = None

\* C23: the rows a poll cycle takes up are the min(100, k) oldest, by
\* timestamp, of the k rows that are unprocessed at its SELECT; the loop
\* inserts their footprints in ascending timestamp order; and no row is in
\* the cycle while an unprocessed row with an earlier timestamp is left out
\* of it.
C23_Unprocessed == { id \in 1..batch[1].atSelect : IsUnprocessed(id) }

C23_Taken == { batch[1].rows[k] : k \in DOMAIN batch[1].rows }

C23_OldestFirst ==
    pc[1] \in {"selected", "inserted"}
        => LET rows == batch[1].rows
               k == Cardinality(C23_Unprocessed)
           IN  /\ Len(rows) = IF k < 100 THEN k ELSE 100
               /\ Cardinality(C23_Taken) = Len(rows)
               /\ C23_Taken \subseteq C23_Unprocessed
               /\ \A i, j \in DOMAIN rows :
                     i < j => metrics[rows[i]].timestamp <= metrics[rows[j]].timestamp
               /\ \A out \in C23_Unprocessed \ C23_Taken : \A in \in C23_Taken :
                     metrics[in].timestamp <= metrics[out].timestamp
               /\ pc[1] = "inserted"
                     => [i \in DOMAIN txn[1] |-> txn[1][i].metric_id] = rows

\* 102 rows are unprocessed; the cycle inserted 100 of them, the row
\* ingested last (timestamp 1) among them and rows 100 and 101 left out.
C23_Witness ==
    /\ pc[1] = "inserted"
    /\ Cardinality(C23_Unprocessed) = 102
    /\ Len(txn[1]) = 100
    /\ 102 \in C23_Taken
    /\ metrics[102].timestamp = 1
    /\ {100, 101} \cap C23_Taken = {}

\* C27: the footprints of one call of process_unprocessed_metrics reach the
\* store in one step, its commit, all rows of the batch together; a call
\* that raises in its loop leaves the store as it was, so none of the rows
\* it had inserted is persisted and every row of its batch is still
\* unprocessed.
C27_AllOrNothing ==
    [][ /\ footprints' # footprints
            => /\ pc[1] = "inserted" /\ pc'[1] = "idle"
               /\ Len(footprints') = Len(footprints) + Len(batch[1].rows)
               /\ \A k \in DOMAIN batch[1].rows :
                     footprints'[Len(footprints) + k].metric_id = batch[1].rows[k]
        /\ (pc[1] = "selected" /\ pc'[1] = "idle")
            => /\ cur'[1].status = "raised"
               /\ footprints' = footprints
               /\ \A k \in DOMAIN batch[1].rows : \A f \in DOMAIN footprints' :
                     footprints'[f].metric_id # batch[1].rows[k] ]_vars

\* A call fetched two rows, could insert the first and raised on the
\* second (no power value): the first has no footprint either.
C27_Witness ==
    /\ cur[1].status = "raised"
    /\ cur[1].rows = <<1, 2>>
    /\ metrics[1].power # None
    /\ metrics[2].power = None
    /\ footprints = <<>>
    /\ pc[1] = "idle"

\* C24: with the poll loop running and the store reachable, every ingested
\* reading that can be attributed (it has a power value) eventually has a
\* footprint, whatever other readings are in the store.
C24_QueueDrained ==
    \A id \in 1..MaxIngest :
        (id \in DOMAIN metrics /\ metrics[id].power # None)
            ~> (\E k \in DOMAIN footprints : footprints[k].metric_id = id)

\* C28: the model a GridCarbonPredictor holds in memory is absent or
\* fitted at every moment, so that no prediction call finds an object that
\* was not fitted: during a training and after a training whose fit failed
\* a call is answered from the model loaded before, or as unavailable.
C28_NeverUnfitted ==
    /\ \A process \in ModelProcesses : mem[process] # Unfitted
    /\ mlCall.process # "none" => mlCall.memBefore # Unfitted

\* C21: every forecast has 25 points, the first at the time of the call,
\* the last 24 hours later, consecutive points one hour apart, and each
\* point carries the hour-of-day, 0 to 23, of its own timestamp.
C21_HourlyGrid ==
    forecast.kind = "predict"
        => LET points == forecast.result
           IN  /\ Len(points) = 25
               /\ points[1].timestamp = forecast.now
               /\ points[Len(points)].timestamp = forecast.now + 24 * 60
               /\ \A k \in 1..(Len(points) - 1) :
                     points[k + 1].timestamp = points[k].timestamp + 60
               /\ \A k \in DOMAIN points :
                     /\ points[k].hour \in 0..23
                     /\ \E day \in 0..2 :
                          LET hourStart == (24 * day + points[k].hour) * 60
                          IN  /\ hourStart <= points[k].timestamp
                              /\ points[k].timestamp < hourStart + 60

\* A forecast made at 23:59: the first point is tagged 23, the second 0,
\* the last 23 again.
C21_Witness ==
    /\ forecast.kind = "predict"
    /\ forecast.now = 23 * 60 + 59
    /\ forecast.result[1].hour = 23
    /\ forecast.result[2].hour = 0
    /\ forecast.result[25].hour = 23
    /\ forecast.result[25].timestamp = 47 * 60 + 59

\* C22: a greenest-hours call asking for n hours returns min(n, 25) points
\* of the forecast, none of them with a higher predicted intensity than a
\* point left out, in ascending order of intensity, points of equal
\* intensity in timestamp order.
C22_Returned == { forecast.result[k].timestamp : k \in DOMAIN forecast.result }

C22_LowestNInOrder ==
    forecast.kind = "greenest"
        => LET r == forecast.result
               p == forecast.predictions
               n == forecast.top_n
           IN  /\ Len(r) = IF n < 25 THEN n ELSE 25
               /\ Cardinality(C22_Returned) = Len(r)
               /\ \A i, j \in DOMAIN p :
                     (p[i].timestamp \in C22_Returned
                          /\ p[j].timestamp \notin C22_Returned)
                        => p[i].predicted_intensity <= p[j].predicted_intensity
               /\ \A i, j \in DOMAIN r :
                     i < j => /\ r[i].predicted_intensity <= r[j].predicted_intensity
                              /\ r[i].predicted_intensity = r[j].predicted_intensity
                                    => r[i].timestamp < r[j].timestamp

\* C26: a recommendation call does not fail when it selects the current
\* point, and the point it uses is the first point of the forecast tagged
\* with the current hour, or the first point of the forecast when no point
\* is tagged with it.  (Some point is tagged with the current hour in every
\* forecast: 25 hourly points cover the 24 hours of the day.)
C26_WithCurrentHour ==
    { k \in DOMAIN advice.predictions :
        advice.predictions[k].hour = advice.current_hour }

C26_CurrentPointSelected ==
    advice.service # "none"
        => /\ ~advice.raised
           /\ C26_WithCurrentHour # {}
           /\ \A k \in C26_WithCurrentHour :
                 (\A j \in C26_WithCurrentHour : k <= j)
                    => advice.current_intensity =
                           advice.predictions[k].predicted_intensity
           /\ C26_WithCurrentHour = {}
                 => advice.current_intensity =
                        advice.predictions[1].predicted_intensity

\* The current hour tags the first and the last point, which predict
\* different intensities; the predictor used the first.
C26_Witness ==
    /\ advice.service = "predictor"
    /\ ~advice.raised
    /\ C26_WithCurrentHour = {1, 25}
    /\ advice.predictions[1].predicted_intensity = 510
    /\ advice.predictions[25].predicted_intensity = 300
    /\ advice.current_intensity = 510

\* C29: hours_until_greenest is the number of hours from the timestamp of
\* the current forecast point to the timestamp of the greenest point.
C29_Current == CHOOSE k \in C26_WithCurrentHour : \A j \in C26_WithCurrentHour : k <= j

C29_Greenest ==
    CHOOSE k \in DOMAIN advice.predictions :
        /\ \A j \in DOMAIN advice.predictions :
              advice.predictions[k].predicted_intensity
                  <= advice.predictions[j].predicted_intensity
        /\ \A j \in 1..(k - 1) :
              advice.predictions[j].predicted_intensity
                  > advice.predictions[k].predicted_intensity

C29_HoursBetweenTimestamps ==
    (advice.service # "none" /\ ~advice.raised)
        => advice.hours_until_greenest * 60
              = advice.predictions[C29_Greenest].timestamp
                  - advice.predictions[C29_Current].timestamp

=============================================================================
